---------------------------- MODULE Spec2Model ----------------------------
(***************************************************************************)
(* A model of hemoglobin (src/src/lib.rs): the sparse Grid, the            *)
(* neighbour-state encoder get_state, the Rule table with its base-64      *)
(* codec, and the double-buffered World.                                   *)
(*                                                                         *)
(* Nine specifications share the variables:                                *)
(*   Spec      a World driven through its public operations (gen, step);   *)
(*   SpecSeed  the same World whose active grid is also seeded by insert;  *)
(*   SpecGrid  one Grid, bounded or unbounded, under insert and gen;       *)
(*   SpecEnc   get_state applied to cells of an unbounded Grid, over the   *)
(*             whole (scaled-down) range of the machine word;              *)
(*   SpecRule  a rule code decoded to a B64, shown again, made a Rule;     *)
(*   SpecDraw  a World under gen, step and render onto a surface;          *)
(*   SpecGen   gen on a World and on a Grid outside any World;             *)
(*   SpecTwin  two Worlds of one rule and one active grid, stepped;        *)
(*   SpecParse a Grid read from rows of text.                              *)
(***************************************************************************)
EXTENDS Integers, Sequences, FiniteSets

VARIABLES
    rule,       \* World.rule / the Rule built from a code: [b64, bin]
    grid,       \* World.grid, the active Grid: [grid, bounds]
    swap_grid,  \* World.swap_grid, the spare Grid
    pc,         \* where the running operation stands
    k,          \* step(): number of cells of the sweep already processed
    pre,        \* history: the active live set when the last step() began
    last,       \* history: the last World operation that completed
    g,          \* a Grid outside any World
    op,         \* history: the last operation on g, with its argument
    enc,        \* the last get_state call: its cell and its outcome
    code,       \* the rule code handed to the decoder (a sequence of characters)
    b64,        \* the outcome of B64::from(code)
    text,       \* the outcome of formatting b64 (Display)
    canvas,     \* the surface handed to render: [w, h, ch], ch the glyph at each position
    visits,     \* history: the positions render has written, in the order of the writes
    twin,       \* a second World with the rule and the size of the first: [grid, swap_grid, ...]
    rows        \* the text rows handed to Grid::from

vars == <<rule, grid, swap_grid, pc, k, pre, last, g, op, enc, code, b64, text,
          canvas, visits, twin, rows>>

worldVars == <<rule, grid, swap_grid, pc, k, pre, last>>
gridVars == <<g, op, enc>>
ruleVars == <<code, b64, text>>
sideVars == <<canvas, visits, twin, rows>>

(***************************************************************************)
(* Bounds of the model.                                                    *)
(***************************************************************************)
\* Largest width and height of a World.
MaxW == 3
MaxH == 3
\* Largest number of cells w * h of a World's domain.
MaxCells == 6
\* usize::MAX of the scaled-down machine word: coordinates are 0..UsizeMax.
UsizeMax == 4
\* Largest bound of a Grid outside a World, and most live cells it is given.
MaxG == 1
MaxLive == 2
\* Largest number of cells of a World whose grid is seeded by insert, and
\* most live cells its active grid may hold for insert to be called.
MaxSeedCells == 4
MaxSeedLive == 1
\* Most rows, most characters of a row and most characters in all of a text
\* that is parsed.
MaxRows == 2
MaxCols == 3
MaxChars == 6
\* Largest number of cells of a World whose gen is set beside a Grid's.
MaxGenCells == 2
\* Largest number of cells of a World that is rendered.
MaxDrawCells == 4
\* Largest number of cells of two Worlds that are compared, and most live
\* cells of their active grid.
MaxTwinCells == 9
MaxTwinLive == 1

(***************************************************************************)
(* Cells and Option values.                                                *)
(***************************************************************************)
\* type Cell = (usize, usize)
Cell(x, y) == <<x, y>>

\* Option<(usize, usize)>
None == [some |-> FALSE, w |-> 0, h |-> 0]
Some(w, h) == [some |-> TRUE, w |-> w, h |-> h]

(***************************************************************************)
(* Grid                                                                    *)
(***************************************************************************)
\* Grid::new: no live cell, the bounds as given.
GridNew(b) == [grid |-> {}, bounds |-> b]

\* insert with the bound itself out of range (cell.0 < w and cell.1 < h).
insert_exclusive(G, cell) ==
    IF ~G.bounds.some
    THEN [G EXCEPT !.grid = @ \cup {cell}]
    ELSE IF cell[1] < G.bounds.w /\ cell[2] < G.bounds.h
         THEN [G EXCEPT !.grid = @ \cup {cell}]
         ELSE G

\* insert that takes out a cell it finds stored.
insert_toggle(G, cell) ==
    IF cell \in G.grid
    THEN [G EXCEPT !.grid = @ \ {cell}]
    ELSE IF ~G.bounds.some \/ (cell[1] <= G.bounds.w /\ cell[2] <= G.bounds.h)
         THEN [G EXCEPT !.grid = @ \cup {cell}]
         ELSE G

\* insert without the check against the bounds.
insert_unchecked(G, cell) == [G EXCEPT !.grid = @ \cup {cell}]

\* Grid::insert: unbounded, the cell is added; bounded, it is added when
\* cell.0 <= w and cell.1 <= h and dropped otherwise.
insert(G, cell) ==
    IF ~G.bounds.some
    THEN [G EXCEPT !.grid = @ \cup {cell}]
    ELSE IF cell[1] <= G.bounds.w /\ cell[2] <= G.bounds.h
         THEN [G EXCEPT !.grid = @ \cup {cell}]
         ELSE G

\* Grid::contains
contains(G, cell) == cell \in G.grid

\* Grid::x_bound and Grid::y_bound, unwrapped (the callers unwrap them).
x_bound(G) == G.bounds.w
y_bound(G) == G.bounds.h

\* Loops running over 0..=x_bound and 0..=y_bound.
Domain_inclusive(G) == {Cell(x, y) : x \in 0 .. x_bound(G), y \in 0 .. y_bound(G)}

\* The cells the loops `for x in 0..x_bound { for y in 0..y_bound` visit.
Domain(G) == {Cell(x, y) : x \in 0 .. x_bound(G) - 1, y \in 0 .. y_bound(G) - 1}

\* The k-th cell (from 0) of that traversal: x outer, y inner.
LoopCell(G, i) == Cell(i \div y_bound(G), i % y_bound(G))

\* gen without self.grid.clear().
gen_keep(G, drawn) ==
    IF ~G.bounds.some
    THEN G
    ELSE [G EXCEPT !.grid = @ \cup {c \in drawn : c \in insert(GridNew(G.bounds), c).grid}]

\* Grid::gen with the cells whose gen_bool(1/10) draw came out true: an
\* unbounded grid is left alone; a bounded one is cleared and each drawn cell
\* of the domain goes through insert.
gen(G, drawn) ==
    IF ~G.bounds.some
    THEN G
    ELSE [G EXCEPT !.grid = {c \in drawn : c \in insert(GridNew(G.bounds), c).grid}]

(***************************************************************************)
(* get_state, the neighbour-state encoder                                  *)
(***************************************************************************)
\* usize addition as a release build computes it: modulo 2^w.
WrappingAdd(a, b) == (a + b) % (UsizeMax + 1)

\* Option<usize>
NoUsize == [some |-> FALSE, v |-> 0]
SomeUsize(v) == [some |-> TRUE, v |-> v]

\* A subtraction that wraps below zero to the top of the word.
checked_sub_wrapping(a, b) == SomeUsize((a - b) % (UsizeMax + 1))

\* usize::checked_sub: None when the subtraction would go below 0.
checked_sub(a, b) == IF a < b THEN NoUsize ELSE SomeUsize(a - b)

\* The condition of the `if` in get_state's loop body for offsets dx, dy.
NeighborAlive(G, cell, dx, dy) ==
    LET xx == checked_sub(WrappingAdd(cell[1], dx), 1)
        yy == checked_sub(WrappingAdd(cell[2], dy), 1)
    IN  IF ~xx.some THEN FALSE
        ELSE IF ~yy.some THEN FALSE
        ELSE contains(G, Cell(xx.v, yy.v))

\* 1 << n
Shl1(n) == 2 ^ n

RECURSIVE SumBits(_, _, _)
\* val after the loop iterations numbered i .. 8 (iteration i has dx = i / 3
\* and dy = i % 3: dx is the outer loop), starting from 0.
SumBits(G, cell, i) ==
    IF i > 8 THEN 0
    ELSE LET dx == i \div 3
             dy == i % 3
         IN  (IF NeighborAlive(G, cell, dx, dy) THEN Shl1(dx + 3 * dy) ELSE 0)
             + SumBits(G, cell, i + 1)

\* get_state without the contributions of the offsets dy = 2.
get_state_low6(G, cell) == SumBits(G, cell, 0) % 64

\* get_state's return value when no addition overflows, and in a build that
\* wraps on overflow.
get_state(G, cell) == SumBits(G, cell, 0)

\* x + dx or y + dy exceeds usize::MAX for some offset the loop evaluates.
AddOverflows(cell) == cell[1] + 2 > UsizeMax \/ cell[2] + 2 > UsizeMax

\* The outcomes of get_state over the builds: with overflow checks the call
\* panics when an addition overflows; without them it returns the wrapped sum.
GetStateOutcomes(G, cell) ==
    IF AddOverflows(cell)
    THEN {[panic |-> TRUE, val |-> 0], [panic |-> FALSE, val |-> get_state(G, cell)]}
    ELSE {[panic |-> FALSE, val |-> get_state(G, cell)]}

(***************************************************************************)
(* Rule                                                                    *)
(***************************************************************************)
\* B64::default().data is [0u8; 8]: the length of the payload buffer.
PayloadLen == 8
\* BitVec::from_elem(512, false): the length of the rule table.
TableLen == 512

\* A B64's data is modelled as the sequence of its bytes: data[j + 1] is the
\* byte the source indexes j.

\* BitVec::from_bytes: 8 bits per byte, bytes in order, the most significant
\* bit of each byte first; bit i is at index i (from 0).
BitVecFromBytes(data) ==
    [i \in 0 .. 8 * Len(data) - 1 |-> (data[(i \div 8) + 1] \div (2 ^ (7 - (i % 8)))) % 2 = 1]

\* Rule.bin filled without reversing the decoded bits.
RuleBin_forward(data) ==
    LET reversed == BitVecFromBytes(data)
        n == 8 * Len(data)
    IN  [i \in 0 .. TableLen - 1 |-> IF i < n THEN reversed[i] ELSE FALSE]

\* Rule.bin starting from BitVec::from_elem(512, true).
RuleBin_default_true(data) ==
    LET reversed == BitVecFromBytes(data)
        n == 8 * Len(data)
    IN  [i \in 0 .. TableLen - 1 |-> IF i < n THEN reversed[n - i - 1] ELSE TRUE]

\* The block computing Rule.bin: result starts as 512 times false and
\* result.set(i, reversed[reversed.len() - i - 1]) runs for each
\* i in 0..reversed.len().
RuleBin(data) ==
    LET reversed == BitVecFromBytes(data)
        n == 8 * Len(data)
    IN  [i \in 0 .. TableLen - 1 |-> IF i < n THEN reversed[n - i - 1] ELSE FALSE]

\* impl From<B64> for Rule
RuleFromB64(data) == [b64 |-> data, bin |-> RuleBin(data)]

\* The value of `rule` while no Rule has been built.
NoRule == [b64 |-> <<>>, bin |-> <<>>]

(***************************************************************************)
(* B64: the base-64 codec of a rule code                                   *)
(*                                                                         *)
(* A code is a sequence of characters.  A character of the standard        *)
(* alphabet is modelled by its index 0..63 in the alphabet, which is the   *)
(* 6-bit value it stands for; three more values stand for '=', for a       *)
(* whitespace character and for any other character.                       *)
(***************************************************************************)
\* '=', the padding character of CharacterSet::Standard.
PadCh == 64
\* A whitespace character, which the configuration strips before decoding.
WsCh == 65
\* A character outside the alphabet that is neither '=' nor whitespace.
BadCh == 66

\* The characters of the standard alphabet.
Alphabet == 0 .. 63

RECURSIVE BitsValue(_, _, _)
\* The number whose binary digits, most significant first, are
\* bits[from], ..., bits[from + n - 1].
BitsValue(bits, from, n) ==
    IF n = 0 THEN 0
    ELSE 2 * BitsValue(bits, from, n - 1) + bits[from + n - 1]

\* Bit t (from 0) of a sequence of 6-bit values, each most significant bit first.
SextetBit(q, t) == (q[(t \div 6) + 1] \div (2 ^ (5 - (t % 6)))) % 2

\* Bit t (from 0) of a sequence of bytes, each most significant bit first;
\* 0 past the end (the zero bits that complete the last 6-bit group).
ByteBit(data, t) ==
    IF t < 8 * Len(data) THEN (data[(t \div 8) + 1] \div (2 ^ (7 - (t % 8)))) % 2 ELSE 0

\* The input with its whitespace removed (Config.strip_whitespace = true).
StripWhitespace(s) == SelectSeq(s, LAMBDA c : c # WsCh)

RECURSIVE TrailingPads(_)
\* The number of '=' the input ends with.
TrailingPads(s) ==
    IF s # <<>> /\ s[Len(s)] = PadCh THEN 1 + TrailingPads(SubSeq(s, 1, Len(s) - 1)) ELSE 0

\* Whether the decoder accepts the (stripped) input: its length is not 1
\* modulo 4, '=' occurs only at its end, in the third or fourth place of the
\* last group of four, and every other character is of the alphabet.
Decodable(s) ==
    LET pads == TrailingPads(s)
        m == Len(s) - pads
    IN  /\ Len(s) % 4 # 1
        /\ \A i \in 1 .. m : s[i] \in Alphabet
        /\ \A i \in m + 1 .. Len(s) : (i - 1) % 4 >= 2

\* The bytes the accepted input decodes to: the first 8 * (6m / 8) bits of the
\* m characters' 6-bit values; the bits left over are dropped unchecked.
DecodedBytes(s) ==
    LET m == Len(s) - TrailingPads(s)
        q == SubSeq(s, 1, m)
        bits == [t \in 0 .. 6 * m - 1 |-> SextetBit(q, t)]
    IN  [j \in 1 .. (6 * m) \div 8 |-> BitsValue(bits, 8 * (j - 1), 8)]

\* base64::decode_config_slice(&s, enc.conf, &mut enc.data) followed by
\* unwrap(), enc being B64::default(): an input the decoder rejects makes
\* unwrap panic with the DecodeError; more bytes than the buffer holds make
\* the decoder panic; otherwise the decoded bytes overwrite the first bytes
\* of the zeroed buffer and the rest stays 0.
B64FromString(s) ==
    LET t == StripWhitespace(s)
    IN  IF ~Decodable(t) THEN [state |-> "DecodeError", data |-> <<>>]
        ELSE LET bytes == DecodedBytes(t)
             IN  IF Len(bytes) > PayloadLen THEN [state |-> "panic", data |-> <<>>]
                 ELSE [state |-> "ok",
                       data |-> [j \in 1 .. PayloadLen |->
                                    IF j <= Len(bytes) THEN bytes[j] ELSE 0]]

\* The encoder configured with pad = false.
B64ToString_nopad(data) ==
    LET n == (8 * Len(data) + 5) \div 6
        bits == [t \in 0 .. 6 * n - 1 |-> ByteBit(data, t)]
    IN  [i \in 1 .. n |-> BitsValue(bits, 6 * (i - 1), 6)]

\* base64::encode_config(&self.data, self.conf), the text Display writes:
\* one character per 6 bits, then '=' up to a multiple of four characters
\* (pad = true), no line wrapping.
B64ToString(data) ==
    LET n == (8 * Len(data) + 5) \div 6
        bits == [t \in 0 .. 6 * n - 1 |-> ByteBit(data, t)]
        chars == [i \in 1 .. n |-> BitsValue(bits, 6 * (i - 1), 6)]
        pads == (4 - (n % 4)) % 4
    IN  chars \o [i \in 1 .. pads |-> PadCh]

\* impl From<String> for Rule: Rule::from(B64::from(s)); no Rule when
\* B64::from panics.
RuleFromString(s) ==
    LET x == B64FromString(s)
    IN  IF x.state = "ok" THEN RuleFromB64(x.data) ELSE NoRule

(***************************************************************************)
(* World                                                                   *)
(***************************************************************************)
\* A decision that keeps every cell as it is, whatever the rule.
decide_keep(R, G, cell) == contains(G, cell)

\* World::decide_next_state, on the World's rule and active grid.
decide_next_state(R, G, cell) == R.bin[get_state(G, cell)]

\* step() without its first statement.
ClearSpare_keep(S) == S

\* self.swap_grid.grid.clear(), the first statement of step().
ClearSpare(S) == [S EXCEPT !.grid = {}]

\* The loop body updating the active grid in place.
SweepCell_in_place(R, G, S, cell) ==
    [grid |-> IF decide_next_state(R, G, cell) THEN insert(G, cell)
              ELSE [G EXCEPT !.grid = @ \ {cell}],
     swap_grid |-> IF decide_next_state(R, G, cell) THEN insert(S, cell) ELSE S]

\* The body of step()'s loops for one cell: the decision reads the active
\* grid, the write goes to the spare grid.
SweepCell(R, G, S, cell) ==
    [grid |-> G,
     swap_grid |-> IF decide_next_state(R, G, cell) THEN insert(S, cell) ELSE S]

\* std::mem::swap(&mut self.grid, &mut self.swap_grid)
MemSwap(G, S) == [grid |-> S, swap_grid |-> G]

\* struct World as a value.
World(R, G, S) == [rule |-> R, grid |-> G, swap_grid |-> S]

RECURSIVE Sweep(_, _, _, _)
\* The loops of step() from iteration i (from 0) on, G and S being the
\* two grids at that point.
Sweep(R, G, S, i) ==
    IF i >= x_bound(G) * y_bound(G) THEN [grid |-> G, swap_grid |-> S]
    ELSE LET r == SweepCell(R, G, S, LoopCell(G, i))
         IN  Sweep(R, r.grid, r.swap_grid, i + 1)

\* A step() that leaves the grids alone and replaces the rule by the empty one.
step_rule_reset(W) == [W EXCEPT !.rule = RuleFromB64([j \in 1 .. PayloadLen |-> 0])]

\* World::step from call to return: the clear, the loops, the swap.
step(W) ==
    LET r == Sweep(W.rule, W.grid, ClearSpare(W.swap_grid), 0)
        m == MemSwap(r.grid, r.swap_grid)
    IN  [W EXCEPT !.grid = m.grid, !.swap_grid = m.swap_grid]

\* step() does not return: x_bound().unwrap() on an unbounded grid, or, in a
\* build with overflow checks, get_state on a cell of the domain with
\* x + 2 or y + 2 past the end of the word.
StepCanPanic(W) ==
    \/ ~W.grid.bounds.some
    \/ \E c \in Domain(W.grid) : AddOverflows(c)

\* The outcomes of step() over the builds.
StepOutcomes(W) ==
    IF ~W.grid.bounds.some THEN {[panic |-> TRUE, world |-> W]}
    ELSE IF StepCanPanic(W)
         THEN {[panic |-> TRUE, world |-> W], [panic |-> FALSE, world |-> step(W)]}
         ELSE {[panic |-> FALSE, world |-> step(W)]}

RECURSIVE SetsUpTo(_, _)
\* The subsets of D with at most n cells.
SetsUpTo(D, n) ==
    IF n = 0 THEN {{}}
    ELSE LET P == SetsUpTo(D, n - 1)
         IN  P \cup {S \cup {c} : S \in P, c \in D}

RECURSIVE InsertAll(_, _)
\* G after insert of every cell of S.
InsertAll(G, S) ==
    IF S = {} THEN G
    ELSE LET c == CHOOSE c \in S : TRUE
         IN  InsertAll(insert(G, c), S \ {c})

\* The payloads of the rules a World is built with: no entry true, entries
\* 0..63 all true, entry 16 alone (a lone cell survives), entry 0 alone (a
\* cell with an empty neighbourhood is born), and a mixed table.
WorldPayloads ==
    { <<0, 0, 0, 0, 0, 0, 0, 0>>,
      <<255, 255, 255, 255, 255, 255, 255, 255>>,
      <<0, 0, 0, 0, 0, 1, 0, 0>>,
      <<0, 0, 0, 0, 0, 0, 0, 1>>,
      <<0, 0, 0, 0, 0, 37, 0, 180>> }

\* The sizes a World is built with.
WorldDims ==
    {d \in (0 .. MaxW) \X (0 .. MaxH) : d[1] * d[2] <= MaxCells}

\* Variables a specification does not use keep these values.
NoOp == [name |-> "none", cell |-> Cell(0, 0), before |-> {}, drawn |-> {}]
NoCall == [called |-> FALSE, cell |-> Cell(0, 0), panic |-> FALSE, val |-> 0]
GridIdle == g = GridNew(None) /\ op = NoOp /\ enc = NoCall
RuleIdle == code = <<>> /\ b64 = [state |-> "none", data |-> <<>>] /\ text = <<>>
WorldIdle == rule = NoRule /\ grid = GridNew(None) /\ swap_grid = GridNew(None)
               /\ pc = "idle" /\ k = 0 /\ pre = {} /\ last = "none"
NoCanvas == [w |-> 0, h |-> 0, ch |-> <<>>]
NoTwin == [grid |-> GridNew(None), swap_grid |-> GridNew(None),
           spares |-> <<{}, {}>>, panic |-> FALSE]
CanvasIdle == canvas = NoCanvas /\ visits = <<>>
TwinIdle == twin = NoTwin
RowsIdle == rows = <<>>
SideIdle == CanvasIdle /\ TwinIdle /\ RowsIdle

\* World::new(width, height, rule), the rule built from a payload.
WorldNew ==
    \E d \in WorldDims, data \in WorldPayloads :
        /\ rule = RuleFromB64(data)
        /\ grid = GridNew(Some(d[1], d[2]))
        /\ swap_grid = GridNew(Some(d[1], d[2]))
        /\ pc = "idle" /\ k = 0 /\ pre = {} /\ last = "new"

Init == WorldNew /\ GridIdle /\ RuleIdle /\ SideIdle

\* World::gen: the active grid's gen, with any outcome of the draws.
WorldGen ==
    /\ pc = "idle"
    /\ \E drawn \in SUBSET Domain(grid) : grid' = gen(grid, drawn)
    /\ last' = "gen"
    /\ UNCHANGED <<rule, swap_grid, pc, k, pre, gridVars, ruleVars, sideVars>>

\* step(), its first statement: the spare grid is cleared and the sweep starts.
StepBegin ==
    /\ pc = "idle"
    /\ swap_grid' = ClearSpare(swap_grid)
    /\ pc' = "sweep"
    /\ k' = 0
    /\ pre' = grid.grid
    /\ UNCHANGED <<rule, grid, last, gridVars, ruleVars, sideVars>>

\* step(), one iteration of the loops.
StepCell ==
    /\ pc = "sweep"
    /\ k < x_bound(grid) * y_bound(grid)
    /\ LET r == SweepCell(rule, grid, swap_grid, LoopCell(grid, k))
       IN  grid' = r.grid /\ swap_grid' = r.swap_grid
    /\ k' = k + 1
    /\ UNCHANGED <<rule, pc, pre, last, gridVars, ruleVars, sideVars>>

\* step(), after the loops: the two grids are swapped and step() returns.
StepSwap ==
    /\ pc = "sweep"
    /\ k = x_bound(grid) * y_bound(grid)
    /\ LET r == MemSwap(grid, swap_grid)
       IN  grid' = r.grid /\ swap_grid' = r.swap_grid
    /\ pc' = "idle"
    /\ k' = 0
    /\ last' = "step"
    /\ UNCHANGED <<rule, pre, gridVars, ruleVars, sideVars>>

Next == WorldGen \/ StepBegin \/ StepCell \/ StepSwap

Spec == Init /\ [][Next]_vars

\* step() as one action: it returns the World after the swap, or panics.
Step ==
    /\ pc = "idle"
    /\ \E o \in StepOutcomes(World(rule, grid, swap_grid)) :
          IF o.panic
          THEN pc' = "panic" /\ UNCHANGED <<rule, grid, swap_grid, pre, last>>
          ELSE /\ rule' = o.world.rule
               /\ grid' = o.world.grid
               /\ swap_grid' = o.world.swap_grid
               /\ pre' = grid.grid
               /\ last' = "step"
               /\ pc' = pc
    /\ UNCHANGED <<k, gridVars, ruleVars, sideVars>>

(***************************************************************************)
(* SpecDraw: a World under gen, step and render, with the surface render   *)
(* writes to.                                                              *)
(***************************************************************************)
\* The glyphs render writes, and the one the surface holds before.
LiveGlyph == "full block"
BlankGlyph == "space"
OldGlyph == "old"

\* A surface of w columns and h rows that no render has touched.
CanvasNew(w, h) ==
    [w |-> w, h |-> h, ch |-> [pos \in (0 .. w - 1) \X (0 .. h - 1) |-> OldGlyph]]

\* canvas.get_mut(x, y) is Some: the position is on the surface.
CanvasHas(C, cell) == cell[1] < C.w /\ cell[2] < C.h

\* The body of render's loops for one cell with the glyphs exchanged.
RenderWrite_inverted(G, C, cell) ==
    [C EXCEPT !.ch[cell] = IF contains(G, cell) THEN BlankGlyph ELSE LiveGlyph]

\* The body of render's loops for one cell the surface has: the full block
\* when the active grid contains the cell, a space otherwise.
RenderWrite(G, C, cell) ==
    [C EXCEPT !.ch[cell] = IF contains(G, cell) THEN LiveGlyph ELSE BlankGlyph]

DrawDims == {d \in WorldDims : d[1] * d[2] <= MaxDrawCells}

\* The surfaces tried with a World of size (w, h): of the same size, one
\* larger each way, and one column short.
Canvases(w, h) ==
    {CanvasNew(w, h), CanvasNew(w + 1, h + 1)}
        \cup (IF w > 0 THEN {CanvasNew(w - 1, h)} ELSE {})

\* The rules of the Worlds that are rendered: entries 0..63 all true, and
\* the mixed table.
DrawPayloads ==
    { <<255, 255, 255, 255, 255, 255, 255, 255>>,
      <<0, 0, 0, 0, 0, 37, 0, 180>> }

InitDraw ==
    /\ WorldNew
    /\ rule.b64 \in DrawPayloads
    /\ <<x_bound(grid), y_bound(grid)>> \in DrawDims
    /\ canvas \in Canvases(x_bound(grid), y_bound(grid))
    /\ visits = <<>>
    /\ GridIdle /\ RuleIdle /\ TwinIdle /\ RowsIdle

\* render is called.
RenderBegin ==
    /\ pc = "idle"
    /\ pc' = "render"
    /\ k' = 0
    /\ visits' = <<>>
    /\ UNCHANGED <<rule, grid, swap_grid, pre, last, canvas, twin, rows, gridVars, ruleVars>>

\* render, one iteration of its loops on a position the surface has.
RenderCell ==
    /\ pc = "render"
    /\ k < x_bound(grid) * y_bound(grid)
    /\ CanvasHas(canvas, LoopCell(grid, k))
    /\ canvas' = RenderWrite(grid, canvas, LoopCell(grid, k))
    /\ visits' = Append(visits, LoopCell(grid, k))
    /\ k' = k + 1
    /\ UNCHANGED <<rule, grid, swap_grid, pc, pre, last, twin, rows, gridVars, ruleVars>>

\* render, an iteration on a position the surface lacks: get_mut gives None
\* and unwrap panics.
RenderPanic ==
    /\ pc = "render"
    /\ k < x_bound(grid) * y_bound(grid)
    /\ ~CanvasHas(canvas, LoopCell(grid, k))
    /\ pc' = "panic"
    /\ UNCHANGED <<rule, grid, swap_grid, k, pre, last, gridVars, ruleVars, sideVars>>

\* render returns after its loops.
RenderEnd ==
    /\ pc = "render"
    /\ k = x_bound(grid) * y_bound(grid)
    /\ pc' = "idle"
    /\ k' = 0
    /\ last' = "render"
    /\ UNCHANGED <<rule, grid, swap_grid, pre, gridVars, ruleVars, sideVars>>

NextDraw == WorldGen \/ Step \/ RenderBegin \/ RenderCell \/ RenderPanic \/ RenderEnd

SpecDraw == InitDraw /\ [][NextDraw]_vars

(***************************************************************************)
(* SpecTwin: two Worlds of the same size, rule and active grid, whose      *)
(* spare grids differ, each taken through step().                          *)
(***************************************************************************)
TwinDims == {d \in (0 .. MaxW) \X (0 .. MaxH) : d[1] * d[2] <= MaxTwinCells}

\* Both Worlds are built by World::new and their active grids hold the same
\* generation (gen drew the same cells); the first World's spare grid holds
\* nothing or one cell of an earlier generation, the second World's nothing.
InitTwin ==
    /\ \E d \in TwinDims, data \in WorldPayloads :
          LET E == GridNew(Some(d[1], d[2]))
          IN  \E A \in SetsUpTo(Domain(E), MaxTwinLive),
                 S \in {{}} \cup {{c} : c \in Domain(E)} :
                 /\ rule = RuleFromB64(data)
                 /\ grid = gen(E, A)
                 /\ swap_grid = gen(E, S)
                 /\ twin = [grid |-> gen(E, A), swap_grid |-> E,
                            spares |-> <<{}, {}>>, panic |-> FALSE]
    /\ pc = "idle" /\ k = 0 /\ pre = {} /\ last = "new"
    /\ GridIdle /\ RuleIdle /\ CanvasIdle /\ RowsIdle

\* step() on each of the two Worlds.
TwinStep ==
    /\ pc = "idle"
    /\ ~twin.panic
    /\ \E o \in StepOutcomes(World(rule, grid, swap_grid)),
          t \in StepOutcomes(World(rule, twin.grid, twin.swap_grid)) :
          /\ IF o.panic
             THEN pc' = "panic" /\ UNCHANGED <<rule, grid, swap_grid, pre, last>>
             ELSE /\ rule' = o.world.rule
                  /\ grid' = o.world.grid
                  /\ swap_grid' = o.world.swap_grid
                  /\ pre' = grid.grid
                  /\ last' = "step"
                  /\ pc' = pc
          /\ twin' = [grid |-> t.world.grid, swap_grid |-> t.world.swap_grid,
                      spares |-> <<swap_grid.grid, twin.swap_grid.grid>>,
                      panic |-> t.panic]
    /\ UNCHANGED <<k, canvas, visits, rows, gridVars, ruleVars>>

NextTwin == TwinStep

SpecTwin == InitTwin /\ [][NextTwin]_vars

(***************************************************************************)
(* SpecSeed: a World whose active grid also receives insert, the way a     *)
(* caller copies a pattern into it cell by cell.                           *)
(***************************************************************************)
SeedDims == {d \in WorldDims : d[1] * d[2] <= MaxSeedCells}

\* The cells handed to insert: the domain and one column and row beyond it,
\* so that cells on the bound and past it are tried.
SeedCells == (0 .. MaxW + 1) \X (0 .. MaxH + 1)

InitSeed ==
    /\ WorldNew
    /\ <<x_bound(grid), y_bound(grid)>> \in SeedDims
    /\ GridIdle /\ RuleIdle /\ SideIdle

\* self.grid.insert(&cell) between two World operations.
WorldInsert(cell) ==
    /\ pc = "idle"
    /\ Cardinality(insert(grid, cell).grid) <= MaxSeedLive
    /\ grid' = insert(grid, cell)
    /\ last' = "insert"
    /\ UNCHANGED <<rule, swap_grid, pc, k, pre, gridVars, ruleVars, sideVars>>

NextSeed == Next \/ \E cell \in SeedCells : WorldInsert(cell)

SpecSeed == InitSeed /\ [][NextSeed]_vars

(***************************************************************************)
(* SpecGrid: one Grid outside any World, under insert and gen.             *)
(***************************************************************************)
GridBounds == {None} \cup {Some(w, h) : w \in 0 .. MaxG, h \in 0 .. MaxG}

\* The cells handed to insert: up to one past the largest bound.
GridCells == (0 .. MaxG + 1) \X (0 .. MaxG + 1)

InitGrid ==
    /\ \E b \in GridBounds : g = GridNew(b)
    /\ op = NoOp /\ enc = NoCall
    /\ WorldIdle /\ RuleIdle /\ SideIdle

\* g.insert(&cell)
GridInsert(cell) ==
    /\ Cardinality(insert(g, cell).grid) <= MaxLive
    /\ g' = insert(g, cell)
    /\ op' = [name |-> "insert", cell |-> cell, before |-> g.grid, drawn |-> {}]
    /\ UNCHANGED <<enc, worldVars, ruleVars, sideVars>>

\* g.gen(), with any outcome of the draws.
GridGen ==
    /\ \E drawn \in SUBSET Domain(g) :
          /\ Cardinality(drawn) <= MaxLive
          /\ g' = gen(g, drawn)
          /\ op' = [name |-> "gen", cell |-> Cell(0, 0), before |-> g.grid, drawn |-> drawn]
    /\ UNCHANGED <<enc, worldVars, ruleVars, sideVars>>

NextGrid == GridGen \/ \E cell \in GridCells : GridInsert(cell)

SpecGrid == InitGrid /\ [][NextGrid]_vars

(***************************************************************************)
(* SpecGen: gen on a World (with step() between) and on a Grid outside any *)
(* World, bounded or not, that insert has given cells.  One of the two is  *)
(* varied at a time: a World of any small size beside an empty unbounded   *)
(* Grid, or a Grid of any bounds and contents beside a World of size 0 x 0.*)
(***************************************************************************)
GenDims == {d \in WorldDims : d[1] * d[2] <= MaxGenCells}

InitGen ==
    /\ \/ /\ WorldNew
          /\ <<x_bound(grid), y_bound(grid)>> \in GenDims
          /\ g = GridNew(None)
       \/ /\ rule = RuleFromB64([j \in 1 .. PayloadLen |-> 0])
          /\ grid = GridNew(Some(0, 0))
          /\ swap_grid = GridNew(Some(0, 0))
          /\ pc = "idle" /\ k = 0 /\ pre = {} /\ last = "new"
          /\ \E b \in GridBounds, S \in SetsUpTo(GridCells, MaxLive) :
                g = InsertAll(GridNew(b), S)
    /\ op = NoOp /\ enc = NoCall
    /\ RuleIdle /\ SideIdle

NextGen == WorldGen \/ Step \/ GridGen

SpecGen == InitGen /\ [][NextGen]_vars

(***************************************************************************)
(* SpecParse: Grid::from on rows of text.  A row is the sequence of its    *)
(* characters; row[x + 1] is the character chars().enumerate() numbers x.  *)
(***************************************************************************)
\* The marker of a live cell; the characters of the texts tried are the
\* marker, the space and, as another character that is not the marker, '.'.
Marker == "#"
TextChars == {Marker, " "}

\* The inner loop's body with column and row exchanged.
ParseChar_transposed(G, x, y, c) == IF c = Marker THEN insert(G, Cell(y, x)) ELSE G

\* The body of the inner loop for the character c numbered x of the row
\* numbered y: if c == '#' { result.insert(&(x, y)) }.
ParseChar(G, x, y, c) == IF c = Marker THEN insert(G, Cell(x, y)) ELSE G

RECURSIVE ParseRow(_, _, _, _)
\* The inner loop over row's characters from number x on.
ParseRow(G, row, y, x) ==
    IF x >= Len(row) THEN G
    ELSE ParseRow(ParseChar(G, x, y, row[x + 1]), row, y, x + 1)

RECURSIVE ParseRows(_, _, _)
\* The outer loop over the rows of s from number y on.
ParseRows(G, s, y) ==
    IF y >= Len(s) THEN G
    ELSE ParseRows(ParseRow(G, s[y + 1], y, 0), s, y + 1)

\* impl From<Vec<&str>> for Grid: the loops run on Grid::new(None).
GridFromRows(s) == ParseRows(GridNew(None), s, 0)

\* The rows of at most n characters.
TextRows(n) == UNION {[1 .. m -> TextChars] : m \in 0 .. n}

RECURSIVE TextsOf(_, _)
\* The texts of at most r rows and at most n characters in all.
TextsOf(r, n) ==
    IF r = 0 THEN {<<>>}
    ELSE {<<>>} \cup
         UNION {{<<row>> \o t : t \in TextsOf(r - 1, n - Len(row))} :
                   row \in TextRows(IF n < MaxCols THEN n ELSE MaxCols)}

\* The text t with '.' for each of its spaces.
Dotted(t) == [y \in DOMAIN t |-> [x \in DOMAIN t[y] |-> IF t[y][x] = " " THEN "." ELSE t[y][x]]]

\* The texts handed to Grid::from: rows of different lengths, empty rows,
\* rows without a marker, no row at all.
Texts ==
    LET T == TextsOf(MaxRows, MaxChars)
    IN  T \cup {Dotted(t) : t \in T}

InitParse ==
    /\ rows \in Texts
    /\ g = GridNew(None) /\ op = NoOp /\ enc = NoCall
    /\ WorldIdle /\ RuleIdle /\ CanvasIdle /\ TwinIdle

\* g = Grid::from(rows)
Parse ==
    /\ op.name = "none"
    /\ g' = GridFromRows(rows)
    /\ op' = [name |-> "from", cell |-> Cell(0, 0), before |-> g.grid, drawn |-> {}]
    /\ UNCHANGED <<enc, rows, canvas, visits, twin, worldVars, ruleVars>>

NextParse == Parse

SpecParse == InitParse /\ [][NextParse]_vars

(***************************************************************************)
(* SpecEnc: get_state on the cells of an unbounded Grid, the coordinates   *)
(* ranging over the whole machine word 0..UsizeMax.                        *)
(***************************************************************************)
WordCells == (0 .. UsizeMax) \X (0 .. UsizeMax)

RECURSIVE LiveSets(_)
\* The sets of at most n cells of the word range.
LiveSets(n) ==
    IF n = 0 THEN {{}}
    ELSE LET P == LiveSets(n - 1)
         IN  P \cup {s \cup {c} : s \in P, c \in WordCells}

\* The inputs of get_state: an unbounded grid given some live cells by
\* insert, and the cell to encode.
InitEnc ==
    /\ \E S \in LiveSets(MaxLive) : g = InsertAll(GridNew(None), S)
    /\ \E cell \in WordCells : enc = [NoCall EXCEPT !.cell = cell]
    /\ op = NoOp
    /\ WorldIdle /\ RuleIdle /\ SideIdle

\* get_state(&g, &enc.cell), in either build.
GetState ==
    /\ ~enc.called
    /\ \E o \in GetStateOutcomes(g, enc.cell) :
          enc' = [called |-> TRUE, cell |-> enc.cell, panic |-> o.panic, val |-> o.val]
    /\ UNCHANGED <<g, op, worldVars, ruleVars, sideVars>>

NextEnc == GetState

SpecEnc == InitEnc /\ [][NextEnc]_vars

(***************************************************************************)
(* SpecRule: a rule code is decoded to a B64, which is shown again as text *)
(* or made a Rule; or the code is made a Rule directly.                    *)
(***************************************************************************)
\* The number of alphabet characters of the code of a full payload.
BodyLen == (8 * PayloadLen + 5) \div 6

\* 6-bit values tried at each place of a code.
SextetSamples == {0, 1, 2, 4, 8, 16, 32, 63}

\* The sequences of BodyLen alphabet characters with one place set to a
\* sample and the others to a common base (60 has its two low bits clear,
\* 63 has all six set).
CodeBodies ==
    {[i \in 1 .. BodyLen |-> IF i = p THEN v ELSE b] :
        p \in 1 .. BodyLen, v \in SextetSamples, b \in {0, 60, 63}}

\* s with character c put before place i.
InsertAt(s, i, c) == SubSeq(s, 1, i - 1) \o <<c>> \o SubSeq(s, i, Len(s))

\* The codes built on one body: padded, unpadded, with whitespace, with a
\* foreign character, with '=' inside, for a shorter or a longer payload,
\* of a length no payload has, with too much padding.
CodesOf(B) ==
    { B \o <<PadCh>>,
      B,
      <<WsCh>> \o B \o <<PadCh>>,
      InsertAt(B, 5, WsCh) \o <<PadCh>>,
      B \o <<PadCh, WsCh>>,
      [B EXCEPT ![3] = BadCh] \o <<PadCh>>,
      [B EXCEPT ![6] = PadCh] \o <<PadCh>>,
      SubSeq(B, 1, 2),
      SubSeq(B, 1, 3) \o <<PadCh>>,
      SubSeq(B, 1, 4),
      SubSeq(B, 1, 6) \o <<PadCh, PadCh>>,
      SubSeq(B, 1, 8),
      SubSeq(B, 1, 10) \o <<PadCh, PadCh>>,
      B \o <<B[1]>>,
      B \o SubSeq(B, 1, 5),
      SubSeq(B, 1, 9),
      B \o <<PadCh, PadCh>>,
      SubSeq(B, 1, 7) \o <<PadCh, PadCh>> }

RuleCodes == UNION {CodesOf(B) : B \in CodeBodies}

NoB64 == [state |-> "none", data |-> <<>>]

InitRule ==
    /\ code \in RuleCodes
    /\ b64 = NoB64 /\ text = <<>>
    /\ WorldIdle /\ GridIdle /\ SideIdle

\* B64::from(code)
DecodeCode ==
    /\ b64 = NoB64
    /\ rule = NoRule
    /\ b64' = B64FromString(code)
    /\ UNCHANGED <<code, text, worldVars, gridVars, sideVars>>

\* format!("{}", b64)
Display ==
    /\ b64.state = "ok"
    /\ text = <<>>
    /\ text' = B64ToString(b64.data)
    /\ UNCHANGED <<code, b64, worldVars, gridVars, sideVars>>

\* Rule::from(b64)
MakeRule ==
    /\ b64.state = "ok"
    /\ rule = NoRule
    /\ rule' = RuleFromB64(b64.data)
    /\ UNCHANGED <<code, b64, text, grid, swap_grid, pc, k, pre, last, gridVars, sideVars>>

\* Rule::from(code): the B64 of the code, then its Rule; a panic of B64::from
\* ends the call without a Rule.
MakeRuleFromCode ==
    /\ b64 = NoB64
    /\ rule = NoRule
    /\ b64' = B64FromString(code)
    /\ rule' = RuleFromString(code)
    /\ UNCHANGED <<code, text, grid, swap_grid, pc, k, pre, last, gridVars, sideVars>>

NextRule == DecodeCode \/ Display \/ MakeRule \/ MakeRuleFromCode

SpecRule == InitRule /\ [][NextRule]_vars

(***************************************************************************)
(* The claims                                                              *)
(***************************************************************************)
\* Bit n of the number v.
Bit(v, n) == (v \div (2 ^ n)) % 2

\* The active grid as it was when the last step() began.
PreGrid == [grid |-> pre, bounds |-> grid.bounds]

\* The cells step() has processed so far.
Processed == {LoopCell(grid, i) : i \in 0 .. k - 1}

\* C1: after step() the active grid is exactly the set of the cells c of
\* [0,w) x [0,h) with rule[encode(G, c)] true, G the active grid before the
\* step: no such cell is missing and no other cell is present.
C1_StepResult ==
    (pc = "idle" /\ last = "step") =>
        grid.grid = {c \in (0 .. x_bound(grid) - 1) \X (0 .. y_bound(grid) - 1) :
                        rule.bin[get_state(PreGrid, c)]}

\* A step of a 3 x 2 World has returned: some cells died, some were born,
\* and the spare grid held other cells before it.
C1_Witness ==
    /\ pc = "idle" /\ last = "step"
    /\ x_bound(grid) = 3 /\ y_bound(grid) = 2
    /\ pre \ grid.grid # {}
    /\ grid.grid \ pre # {}

TrueNeighborAlive(dxi, dyi) ==
    /\ enc.cell[1] + dxi - 1 >= 0
    /\ enc.cell[2] + dyi - 1 >= 0
    /\ <<enc.cell[1] + dxi - 1, enc.cell[2] + dyi - 1>> \in g.grid

\* The value get_state returned has the layout of the claim.
LayoutHolds ==
    /\ ~enc.panic
    /\ enc.val \in 0 .. 511
    /\ \A dxi \in 0 .. 2, dyi \in 0 .. 2 :
          Bit(enc.val, dxi + 3 * dyi) = 1 <=> TrueNeighborAlive(dxi, dyi)

\* C3: for every grid and every cell, get_state returns the number in
\* 0..511 whose bit dxi + 3*dyi is set iff (x + dxi - 1, y + dyi - 1) has no
\* negative component and is alive; bit 4 is the cell's own state; a lone
\* live (0,0) encodes to 16 at (0,0), and (0,0) with (1,1) to 272.
C3_Layout ==
    enc.called =>
        /\ LayoutHolds
        /\ Bit(enc.val, 4) = 1 <=> enc.cell \in g.grid
        /\ (g.grid = {<<0, 0>>} /\ enc.cell = <<0, 0>>) => enc.val = 16
        /\ (g.grid = {<<0, 0>>, <<1, 1>>} /\ enc.cell = <<0, 0>>) => enc.val = 16 + 256

\* The layout of C3 for the cells whose neighbourhood lies inside the
\* machine word (x + 2 and y + 2 do not exceed usize::MAX).
LayoutBelowWordEnd == (enc.called /\ ~AddOverflows(enc.cell)) => LayoutHolds

\* C4: at the zero edge a position that needs a negative coordinate is
\* counted dead: a cell with x = 0 has bits 0, 3 and 6 clear, a cell with
\* y = 0 has bits 0, 1 and 2 clear; the subtraction yields None exactly
\* when it would go below zero and a coordinate of the word otherwise; and
\* going below zero never makes the call fail: it returns whenever no
\* addition runs past the end of the word.
C4_ZeroEdge ==
    enc.called =>
        /\ (~enc.panic /\ enc.cell[1] = 0) => \A n \in {0, 3, 6} : Bit(enc.val, n) = 0
        /\ (~enc.panic /\ enc.cell[2] = 0) => \A n \in {0, 1, 2} : Bit(enc.val, n) = 0
        /\ \A i \in 1 .. 2, d \in 0 .. 2 :
              LET r == checked_sub(WrappingAdd(enc.cell[i], d), 1)
              IN  /\ r.some <=> WrappingAdd(enc.cell[i], d) >= 1
                  /\ r.v \in 0 .. UsizeMax
        /\ (enc.cell[1] + 2 <= UsizeMax /\ enc.cell[2] + 2 <= UsizeMax) => ~enc.panic

\* get_state has returned for a cell of the column x = 0 whose own row and
\* the far end of the word hold live cells.
C4_Witness ==
    /\ enc.called /\ ~enc.panic
    /\ enc.cell[1] = 0
    /\ enc.val > 0
    /\ \E c \in g.grid : c[1] = UsizeMax /\ c[2] = enc.cell[2]

\* C5: insert on a grid bounded at (w, h) adds the cell iff cell.x <= w and
\* cell.y <= h (the bound itself is in range); any other cell leaves the
\* live set unchanged; on an unbounded grid insert always adds the cell.
C5_InsertInclusive ==
    op.name = "insert" =>
        g.grid = IF g.bounds.some
                 THEN IF op.cell[1] <= g.bounds.w /\ op.cell[2] <= g.bounds.h
                      THEN op.before \cup {op.cell}
                      ELSE op.before
                 ELSE op.before \cup {op.cell}

\* A cell with x equal to the width was inserted into a bounded grid and is
\* now alive.
C5_Witness ==
    /\ op.name = "insert"
    /\ g.bounds.some
    /\ op.cell[1] = g.bounds.w
    /\ op.cell \notin op.before
    /\ op.cell \in g.grid

\* No stored cell of a bounded G has x beyond the width or y beyond the height.
WithinBounds(G) ==
    G.bounds.some => \A c \in G.grid : c[1] <= G.bounds.w /\ c[2] <= G.bounds.h

\* C6: in every state reached from an empty bounded grid by insert, gen and
\* World.step, every stored cell has x <= w and y <= h, in the active and in
\* the spare grid.
C6_GridInvariant == WithinBounds(grid) /\ WithinBounds(swap_grid) /\ WithinBounds(g)

\* A cell on the bound was inserted, and a step has moved it to the spare
\* grid while the new generation has live cells.
C6_Witness ==
    /\ pc = "idle" /\ last = "step"
    /\ \E c \in swap_grid.grid : c[1] = x_bound(swap_grid)
    /\ grid.grid # {}

\* Bit j (from 0) of the payload, the bytes in buffer order and the most
\* significant bit of each byte first.
PayloadBit(data, j) == (data[(j \div 8) + 1] \div (2 ^ (7 - (j % 8)))) % 2

\* C7: table[i] = s[63 - i] for every i in 0..63, s being the 64 bits of
\* the payload byte by byte, most significant bit first; table[0] is the
\* least significant bit of the last byte and table[63] the most
\* significant bit of the first.
C7_BitOrder ==
    rule # NoRule =>
        /\ \A i \in 0 .. 63 : rule.bin[i] <=> PayloadBit(rule.b64, 63 - i) = 1
        /\ rule.bin[0] <=> rule.b64[8] % 2 = 1
        /\ rule.bin[63] <=> rule.b64[1] >= 128

\* A Rule was built from a payload whose first byte has its top bit set and
\* whose last byte has its low bit clear.
C7_Witness ==
    /\ rule # NoRule
    /\ rule.b64[1] >= 128 /\ rule.b64[8] % 2 = 0
    /\ rule.bin[63] /\ ~rule.bin[0]

\* C8: every Rule has exactly 512 entries, and the entries 64..511 are
\* false whatever the code.
C8_HighEntriesDead ==
    rule # NoRule =>
        /\ DOMAIN rule.bin = 0 .. 511
        /\ \A i \in 64 .. 511 : ~rule.bin[i]

\* A Rule was built from the code of the payload of 64 one-bits.
C8_Witness ==
    /\ rule # NoRule
    /\ code # <<>>
    /\ \A i \in 0 .. 63 : rule.bin[i]

\* The canonical form of a code: BodyLen characters of the alphabet, the
\* last with its two low bits clear, then one '='.
Canonical(s) ==
    /\ Len(s) = BodyLen + 1
    /\ \A i \in 1 .. BodyLen : s[i] \in Alphabet
    /\ s[BodyLen] % 4 = 0
    /\ s[BodyLen + 1] = PadCh

\* The number of payload bytes the characters of the code stand for.
PayloadBytes(s) == (6 * Cardinality({i \in 1 .. Len(s) : s[i] \in Alphabet})) \div 8

\* C9 as stated: for every code of the expected byte length that the decoder
\* accepts, formatting the decoded B64 gives back the code character for
\* character.
C9_RoundTrip == (text # <<>> /\ PayloadBytes(code) = PayloadLen) => text = code

\* C9 as amended: the text formatted from the decoded B64 is a canonical
\* code that decodes to the same payload, and it is the original code
\* exactly when that code is canonical.
C9_CanonicalRoundTrip ==
    text # <<>> =>
        /\ Canonical(text)
        /\ B64FromString(text) = b64
        /\ text = code <=> Canonical(code)

\* A canonical code with a character of all one-bits was decoded and shown
\* again unchanged.
C9_Witness ==
    /\ text # <<>>
    /\ text = code
    /\ \E i \in 1 .. Len(code) : code[i] = 63

\* A code of the wrong length or with a character outside the alphabet.
WrongCode(s) ==
    \/ PayloadBytes(s) # PayloadLen
    \/ \E i \in 1 .. Len(s) : s[i] \notin Alphabet \cup {PadCh}

\* C10: decoding a code whose payload is shorter or longer than 8 bytes, or
\* which has a character outside the alphabet, fails and produces no Rule.
C10_WrongCodeRejected ==
    (WrongCode(code) /\ b64 # NoB64) => (b64.state # "ok" /\ rule = NoRule)

\* C11: no operation of a World changes its rule: across every step of gen,
\* step() and render, the 512 table entries and the stored payload are the
\* ones the World was built with.
C11_RuleImmutable == [][rule' = rule]_vars

\* A World with a rule that has true entries has been through gen, step()
\* and render: a generation was computed and drawn.
C11_Witness ==
    /\ last = "render"
    /\ swap_grid.grid # {}
    /\ \E pos \in DOMAIN canvas.ch : canvas.ch[pos] = LiveGlyph
    /\ \E i \in 0 .. 63 : rule.bin[i]

\* C12: step() is deterministic and total: two Worlds of the same size,
\* rule and active grid have equal active grids after step() whatever their
\* spare grids held, the result is the one a World with an empty spare grid
\* gets, and step() returns (it does not panic) on every World built by
\* World::new.
C12_StepDeterministicTotal ==
    /\ pc # "panic" /\ ~twin.panic
    /\ ~StepCanPanic(World(rule, grid, swap_grid))
    /\ last = "step" =>
          /\ twin.grid = grid
          /\ grid = step(World(rule, PreGrid, GridNew(grid.bounds))).grid

\* Both Worlds have stepped; their spare grids differed before the step, and
\* the cell of the first World's spare grid is not in the new generation,
\* which has live cells.
C12_Witness ==
    /\ last = "step"
    /\ twin.spares[1] # twin.spares[2]
    /\ twin.spares[1] \cap grid.grid = {}
    /\ grid.grid # {}
    /\ pre # {}

\* C13: a World whose rule table is all false has an empty active grid
\* after step(), whatever cells were alive before, and so after every
\* further step(); a 3 x 3 World with one live cell is dead after one step.
C13_AllFalseDies ==
    (last = "step" /\ \A i \in 0 .. TableLen - 1 : ~rule.bin[i]) => grid.grid = {}

\* A 3 x 3 World with the all-false rule and a single live cell has stepped
\* and is dead.
C13_Witness ==
    /\ last = "step"
    /\ x_bound(grid) = 3 /\ y_bound(grid) = 3
    /\ \A i \in 0 .. TableLen - 1 : ~rule.bin[i]
    /\ Cardinality(pre) = 1
    /\ grid.grid = {}

\* What the last gen left in g: on a bounded grid exactly the cells drawn,
\* all of [0,w) x [0,h), so that no earlier cell survives undrawn, and any
\* subset of the domain could have been drawn; on an unbounded grid the
\* live set it had.
GenOutcome ==
    op.name = "gen" =>
        IF g.bounds.some
        THEN /\ g.grid = op.drawn
             /\ g.grid \subseteq (0 .. g.bounds.w - 1) \X (0 .. g.bounds.h - 1)
             /\ (g.grid \cap op.before) \subseteq op.drawn
             /\ \A D \in SUBSET ((0 .. g.bounds.w - 1) \X (0 .. g.bounds.h - 1)) :
                   gen([g EXCEPT !.grid = op.before], D).grid = D
             /\ g.bounds = gen(g, {}).bounds
        ELSE g.grid = op.before /\ op.drawn = {}

\* A gen of the World leaves its rule and its spare grid alone, and its
\* active grid keeps its bounds and holds cells of the domain only.
GenFrame ==
    last' = "gen" =>
        /\ rule' = rule
        /\ swap_grid' = swap_grid
        /\ grid'.bounds = grid.bounds
        /\ grid'.grid \subseteq (0 .. x_bound(grid) - 1) \X (0 .. y_bound(grid) - 1)

\* C14: randomize on a bounded grid discards the contents and leaves a
\* subset of [0,w) x [0,h) that does not depend on them (any subset can come
\* out, an earlier cell survives only if drawn again); on an unbounded grid
\* it changes nothing; on a World it changes the active grid alone.
C14_Randomize == []GenOutcome /\ [][GenFrame]_vars

\* gen ran on a bounded grid that held a cell on its bound and a cell of its
\* domain: the first is gone, the second was drawn again.
C14_Witness ==
    /\ op.name = "gen"
    /\ g.bounds.some
    /\ \E c \in op.before : c[1] = g.bounds.w
    /\ g.grid # {}
    /\ g.grid \subseteq op.before

Representable(v) == v \in 0 .. UsizeMax

\* C16: for a cell with x or y at the maximum of the word or one below it,
\* get_state returns, and bit dxi + 3*dyi of the value is set iff the true
\* coordinate (x + dxi - 1, y + dyi - 1) is representable and alive: a
\* position past the end of the word is dead, it is not read from column or
\* row 0 or 1, and the sum does not wrap modulo 2^w.
C16_NoWrapAtWordEnd ==
    (enc.called /\ (enc.cell[1] >= UsizeMax - 1 \/ enc.cell[2] >= UsizeMax - 1)) =>
        /\ ~enc.panic
        /\ \A dxi \in 0 .. 2, dyi \in 0 .. 2 :
              Bit(enc.val, dxi + 3 * dyi) = 1 <=>
                  /\ Representable(enc.cell[1] + dxi - 1)
                  /\ Representable(enc.cell[2] + dyi - 1)
                  /\ <<enc.cell[1] + dxi - 1, enc.cell[2] + dyi - 1>> \in g.grid

\* C17: inserting a cell that was just inserted changes nothing: whenever
\* the last operation on a grid, bounded or unbounded, was insert of a cell
\* and the next one is insert of the same cell, the membership after the
\* second is the membership after the first.
C17_InsertIdempotent ==
    [][(op.name = "insert" /\ op'.name = "insert" /\ op'.cell = op.cell)
          => g'.grid = g.grid]_vars

\* A cell was inserted into a bounded grid that already held it, beside
\* another cell, and the grid is as before.
C17_Witness ==
    /\ op.name = "insert"
    /\ g.bounds.some
    /\ op.cell \in op.before
    /\ g.grid = op.before
    /\ Cardinality(g.grid) = 2

\* The surface has a position for every cell of the World's domain.
Covering == canvas.w >= x_bound(grid) /\ canvas.h >= y_bound(grid)

\* What a render has written so far, or in all once it has returned: the
\* positions in the order x outside, y inside, and at each of them the full
\* block iff the cell is in the active grid, the space otherwise.
RenderOutcome ==
    /\ Covering => pc # "panic"
    /\ pc = "render" =>
          visits = [i \in 1 .. k |-> <<(i - 1) \div y_bound(grid), (i - 1) % y_bound(grid)>>]
    /\ (pc = "idle" /\ last = "render") =>
          /\ visits = [i \in 1 .. x_bound(grid) * y_bound(grid) |->
                          <<(i - 1) \div y_bound(grid), (i - 1) % y_bound(grid)>>]
          /\ \A x \in 0 .. x_bound(grid) - 1, y \in 0 .. y_bound(grid) - 1 :
                canvas.ch[<<x, y>>] = IF <<x, y>> \in grid.grid THEN "full block" ELSE "space"
    /\ (pc = "render" \/ (pc = "idle" /\ last = "render")) =>
          \A i \in 1 .. Len(visits) :
             canvas.ch[visits[i]] = IF visits[i] \in grid.grid THEN "full block" ELSE "space"

\* A step of render changes neither grid nor the rule.
RenderFrame ==
    (pc = "render" \/ pc' = "render") =>
        grid' = grid /\ swap_grid' = swap_grid /\ rule' = rule

\* C18: render on a surface covering the domain writes at (x, y), for every
\* cell of [0,w) x [0,h), the live glyph iff (x, y) is in the active grid
\* and the blank glyph otherwise, x being the outer loop and y the inner,
\* and leaves the active grid, the spare grid and the rule as they were.
C18_Render == []RenderOutcome /\ [][RenderFrame]_vars

\* A 2 x 2 World with live and dead cells was rendered on a larger surface
\* after a step: (0,1) was written before (1,0).
C18_Witness ==
    /\ pc = "idle" /\ last = "render"
    /\ x_bound(grid) = 2 /\ y_bound(grid) = 2
    /\ canvas.w = 3
    /\ visits[2] = <<0, 1>> /\ visits[3] = <<1, 0>>
    /\ canvas.ch[<<0, 1>>] = "full block"
    /\ canvas.ch[<<1, 0>>] = "space"
    /\ swap_grid.grid # {}

\* Every stored cell of the bounded G has x < w and y < h.
StrictlyInside(G) ==
    G.bounds.some /\ \A c \in G.grid : c[1] < G.bounds.w /\ c[2] < G.bounds.h

\* C19: in every state of a World reached from World::new by gen and
\* step(), also in the middle of a step, every live cell of the active and
\* of the spare grid has x < w and y < h: no cell on the bound is ever
\* stored; and the two grids have the same bounds, which no operation
\* changes.
C19_StrictlyInside ==
    /\ [](StrictlyInside(grid) /\ StrictlyInside(swap_grid)
            /\ swap_grid.bounds = grid.bounds)
    /\ [][grid'.bounds = grid.bounds /\ swap_grid'.bounds = swap_grid.bounds]_vars

\* After gen and step() both grids of a World hold cells, the active one a
\* cell of the last column and row of the domain.
C19_Witness ==
    /\ pc = "idle" /\ last = "step"
    /\ swap_grid.grid # {}
    /\ <<x_bound(grid) - 1, y_bound(grid) - 1>> \in grid.grid
    /\ x_bound(grid) * y_bound(grid) > 1

\* C20: whatever the rule, a cell (x, y) that is alive after step() had no
\* live cell at (x-1, y+1), (x, y+1) or (x+1, y+1) before it (the bits 6, 7
\* and 8 of its state were clear): a cell with a live cell in the row below
\* it is dead after the step.
C20_RowBelowKills ==
    (pc = "idle" /\ last = "step") =>
        \A c \in grid.grid :
            /\ \A d \in {-1, 0, 1} : <<c[1] + d, c[2] + 1>> \notin pre
            /\ \A n \in {6, 7, 8} : Bit(get_state(PreGrid, c), n) = 0

\* A World whose rule has the entries 0..63 all true has stepped: a cell
\* with live cells around it but none below is alive, the cell above a live
\* cell is dead.
C20_Witness ==
    /\ pc = "idle" /\ last = "step"
    /\ \A i \in 0 .. 63 : rule.bin[i]
    /\ \E c \in grid.grid : get_state(PreGrid, c) > 16
    /\ \E c \in pre : c[2] >= 1 /\ <<c[1], c[2] - 1>> \notin grid.grid

=============================================================================
